---- MODULE Spec2Model ----
(***************************************************************************)
(* Model of the classroom session coordinator of backend/server.js: the    *)
(* in-memory appState (admin, users, chat, drawingEnabled), the Socket.IO  *)
(* connections with their 'classroom' room membership, the deferred        *)
(* disconnect timers armed by kick_user, and one action per socket event   *)
(* handler.  Node runs every handler to completion, so each handler is one *)
(* atomic action.  The emits of the handler that ran last are kept in      *)
(* `sent` (in emission order) and the event it handled in `lastOp`.        *)
(***************************************************************************)
EXTENDS Integers, Sequences, FiniteSets, TLC

\* ---------------------------------------------------------------- bounds
MaxSteps == 4        \* number of events (and clock ticks) in one run
MaxRequests == 3     \* number of HTTP requests to auth.js in one run of AuthSpec

Sockets == {"s1", "s2", "s3"}
\* each client presents its own display name
NameOf == [c \in Sockets |-> CASE c = "s1" -> "Ann" [] c = "s2" -> "Bo" [] OTHER -> "Cy"]
PeerIds == {"p1", "p2"}
Texts == {"hi"}
NULL == "null"
\* the peerId a client can put into a payload: a handle, or null
PeerPayloads == PeerIds \cup {NULL}
NoCode == "undefined"
adminCode == "teach123"
Codes == {adminCode, "wrong", NoCode}
Targets == Sockets \cup {"gone"}

VARIABLES
  admin,           \* appState.admin: socket id or NULL
  users,           \* appState.users: socket id -> user record
  chat,            \* appState.chat: sequence of chat messages
  drawingEnabled,  \* appState.drawingEnabled
  conn,            \* socket lifecycle: "open" (connected) or "closed"
  room,            \* sockets that are members of the room 'classroom'
  timers,          \* pending setTimeout disconnects per kick target
  kicked,          \* participants whose live socket an admin's kick_user reached
  kicker,          \* per kick target: the sockets whose kick_user armed its pending timers
  now,             \* Date.now()
  nextObj,         \* number of chat message objects created so far
  deleted,         \* chat message objects an admin's delete_message removed
  up,              \* the server process is running
  sent,            \* emits of the last handler, in order
  lastOp,          \* the event the last handler handled
  steps,           \* events handled so far
  myPeerId,        \* SimpleVideoCall of each client: its PeerJS id, NULL before 'open'
  connectedPeers,  \* SimpleVideoCall of each client: the ids in its connectedPeers state
  handlerPeers,    \* the connectedPeers value the registered socket handlers closed over
  inbox,           \* relay events sent to each client that its handlers have not run for yet
  calls,           \* the media calls made with peer.call: [from, to] peer ids
  authUsers,       \* auth.js: the stored user accounts, in creation order
  pending,         \* auth.js: register requests past the existence check, awaiting bcrypt.hash
  classroom        \* each client's App.inClassroom and its Classroom component's state

\* the state of the clients' media layer
media == <<myPeerId, connectedPeers, handlerPeers, inbox, calls>>

vars == <<admin, users, chat, drawingEnabled, conn, room, timers, kicked, kicker,
          now, nextObj, deleted, up, sent, lastOp, steps, media, authUsers,
          pending, classroom>>

NoUsers == [x \in {} |-> NULL]
NoData == [none |-> TRUE]

\* App before join_success, and the useState initial values of Classroom
ClassroomInitial ==
  [inClassroom |-> FALSE, users |-> NoUsers, chatMessages |-> <<>>,
   drawingEnabled |-> TRUE]

\* ---------------------------------------------------------------- emits
\* socket.emit(ev, data)
Emit(c, ev, data) == [ev |-> ev, to |-> {c}, data |-> data]
\* mutant of EmitOthers: the sender is not excluded
EmitOthersAndSelf(r, c, ev, data) == [ev |-> ev, to |-> r, data |-> data]

\* socket.to('classroom').emit(ev, data), evaluated with room membership r
EmitOthers(r, c, ev, data) == [ev |-> ev, to |-> r \ {c}, data |-> data]
\* mutant of EmitAll: the event goes to nobody
EmitAllToNobody(r, ev, data) == [ev |-> ev, to |-> {}, data |-> data]

\* io.to('classroom').emit(ev, data)
EmitAll(r, ev, data) == [ev |-> ev, to |-> r, data |-> data]

Op(op, c, data) == [op |-> op, socket |-> c, data |-> data]

\* A handler of socket c can run: the process is up and the socket is open.
CanHandle(c) == up /\ conn[c] = "open" /\ steps < MaxSteps

Handled(op, c, data) ==
  /\ lastOp' = Op(op, c, data)
  /\ steps' = steps + 1

\* ---------------------------------------------------------------- appState
\* The server is up, appState is as constructed, and the clients' sockets are
\* connected (io.on('connection') only registers the handlers below).
Init ==
  /\ admin = NULL
  /\ users = NoUsers
  /\ chat = <<>>
  /\ drawingEnabled = TRUE
  /\ conn = [c \in Sockets |-> "open"]
  /\ room = {}
  /\ timers = [c \in Sockets |-> 0]
  /\ kicked = {}
  /\ kicker = [c \in Sockets |-> {}]
  /\ now = 0
  /\ nextObj = 0
  /\ deleted = {}
  /\ up = TRUE
  /\ sent = <<>>
  /\ lastOp = Op("init", NULL, NoData)
  /\ steps = 0
  /\ myPeerId = [c \in Sockets |-> NULL]
  /\ connectedPeers = [c \in Sockets |-> {}]
  /\ handlerPeers = [c \in Sockets |-> {}]
  /\ inbox = [c \in Sockets |-> <<>>]
  /\ calls = {}
  /\ authUsers = <<>>
  /\ pending = <<>>
  /\ classroom = [c \in Sockets |-> ClassroomInitial]

IsUser(c) == c \in DOMAIN users

\* mutant of IsAdmin: the role is not checked
IsAdminAnyUser(c) == IsUser(c)

\* user && user.role === 'admin'
IsAdmin(c) == IsUser(c) /\ users[c].role = "admin"

NewUser(name, role) ==
  [name |-> name, role |-> role, streamActive |-> FALSE, canDraw |-> TRUE,
   inVideoCall |-> FALSE, peerId |-> NULL]

PutUser(us, c, u) == [x \in DOMAIN us \cup {c} |-> IF x = c THEN u ELSE us[x]]
\* mutant of DelUser: the entry is not deleted
DelUserKeep(us, c) == us

DelUser(us, c) == [x \in DOMAIN us \ {c} |-> us[x]]

\* ---------------------------------------------------------------- join_room
\* mutant of JoinRole: the check that no admin exists yet is missing
JoinRoleAnyTime(code) ==
  IF code = adminCode THEN "admin" ELSE "student"

\* the role join_room assigns
JoinRole(code) ==
  IF code = adminCode /\ admin = NULL THEN "admin" ELSE "student"

JoinRoomHandler(c, name, code) ==
  /\ CanHandle(c)
  /\ LET role == JoinRole(code)
         us == PutUser(users, c, NewUser(name, role))
         r == room \cup {c}
     IN /\ admin' = IF role = "admin" THEN c ELSE admin
        /\ users' = us
        /\ room' = r
        /\ sent' = << Emit(c, "join_success",
                           [role |-> role, users |-> us, chat |-> chat,
                            drawingEnabled |-> drawingEnabled,
                            isAdmin |-> (role = "admin")]),
                      EmitOthers(r, c, "user_joined",
                                 [userId |-> c, user |-> us[c]]) >>
  /\ Handled("join_room", c, [name |-> name, adminCode |-> code])
  /\ UNCHANGED <<kicked, kicker, media, authUsers, pending>>
  /\ UNCHANGED <<chat, drawingEnabled, conn, timers, now, nextObj,
                 deleted, up>>

\* join_room, whatever the clients do with the events it emits
JoinRoom(c, name, code) ==
  /\ JoinRoomHandler(c, name, code)
  /\ UNCHANGED classroom

\* ---------------------------------------------------------------- set_admin
SetAdminGranted(code) == code = adminCode /\ admin = NULL

\* appState.users[socket.id].role = 'admin' throws a TypeError when the socket
\* has no user entry: appState.admin is already assigned, nothing catches the
\* exception and the process exits.
SetAdmin(c, code) ==
  /\ CanHandle(c)
  /\ IF SetAdminGranted(code)
     THEN /\ admin' = c
          /\ IF IsUser(c)
             THEN /\ users' = [users EXCEPT ![c].role = "admin"]
                  /\ sent' = << Emit(c, "admin_set", [isAdmin |-> TRUE]),
                                EmitOthers(room, c, "new_admin",
                                  [userId |-> c, user |-> users'[c]]) >>
                  /\ up' = up
             ELSE /\ users' = users
                  /\ sent' = <<>>
                  /\ up' = FALSE
     ELSE /\ sent' = << Emit(c, "admin_set",
                          [isAdmin |-> FALSE,
                           error |-> "Invalid code or admin already exists"]) >>
          /\ UNCHANGED <<admin, users, up>>
  /\ Handled("set_admin", c, [adminCode |-> code])
  /\ UNCHANGED <<kicked, kicker, media, authUsers, pending, classroom>>
  /\ UNCHANGED <<chat, drawingEnabled, conn, room, timers, now,
                 nextObj, deleted>>

\* ---------------------------------------------------------------- signaling
\* the peers listed to the caller of peer_ready
PeersInRoom(us, c, peerId) ==
  { [peerId |-> us[x].peerId, userName |-> us[x].name, userRole |-> us[x].role] :
      x \in { y \in DOMAIN us : y # c /\ us[y].peerId # NULL /\ us[y].peerId # peerId } }

\* mutant of AlreadyRegistered: the duplicate registration is not detected
AlreadyRegisteredNever(c, peerId) == FALSE

\* user.peerId === peerId
AlreadyRegistered(c, peerId) == users[c].peerId = peerId

\* the handler of peer_ready
PeerReadyHandler(c, peerId) ==
  /\ CanHandle(c)
  /\ IF IsUser(c) /\ ~AlreadyRegistered(c, peerId)
     THEN /\ users' = [users EXCEPT ![c].inVideoCall = TRUE, ![c].peerId = peerId]
          /\ sent' = << Emit(c, "peers_in_room",
                             [peers |-> PeersInRoom(users', c, peerId)]),
                        EmitOthers(room, c, "peer_joined",
                             [peerId |-> peerId, userName |-> users[c].name,
                              userRole |-> users[c].role]) >>
     ELSE /\ users' = users
          /\ sent' = <<>>
  /\ Handled("peer_ready", c, [peerId |-> peerId])
  /\ UNCHANGED <<admin, chat, drawingEnabled, conn, room, timers, kicked,
                 kicker, now, nextObj, deleted, up, pending, classroom>>

\* peer_ready with any handle, whatever the client that sent it does next
PeerReady(c, peerId) ==
  /\ PeerReadyHandler(c, peerId)
  /\ UNCHANGED <<media, authUsers>>

\* mutant of OwnsPeer: the handle is not compared with the caller's
OwnsPeerAnyUser(c, peerId) == IsUser(c)

\* user && user.peerId === peerId
OwnsPeer(c, peerId) == IsUser(c) /\ users[c].peerId = peerId

PeerLeft(c, peerId) ==
  /\ CanHandle(c)
  /\ IF OwnsPeer(c, peerId)
     THEN /\ users' = [users EXCEPT ![c].inVideoCall = FALSE, ![c].peerId = NULL]
          /\ sent' = << EmitOthers(room, c, "peer_left", [peerId |-> peerId]) >>
     ELSE /\ users' = users
          /\ sent' = <<>>
  /\ Handled("peer_left", c, [peerId |-> peerId])
  /\ UNCHANGED <<kicked, kicker, media, authUsers, pending, classroom>>
  /\ UNCHANGED <<admin, chat, drawingEnabled, conn, room, timers,
                 now, nextObj, deleted, up>>

PeerJoined(c, peerId, userName, userRole) ==
  /\ CanHandle(c)
  /\ IF IsUser(c)
     THEN /\ users' = [users EXCEPT ![c].inVideoCall = TRUE, ![c].peerId = peerId]
          /\ sent' = << EmitOthers(room, c, "peer_joined",
                             [peerId |-> peerId, userName |-> userName,
                              userRole |-> userRole]) >>
     ELSE /\ users' = users
          /\ sent' = <<>>
  /\ Handled("peer_joined", c,
             [peerId |-> peerId, userName |-> userName, userRole |-> userRole])
  /\ UNCHANGED <<kicked, kicker, media, authUsers, pending, classroom>>
  /\ UNCHANGED <<admin, chat, drawingEnabled, conn, room, timers,
                 now, nextObj, deleted, up>>

\* ---------------------------------------------------------------- teardown
SessionEnded == [reason |-> "Admin left the session"]

\* the 'disconnect' handler's emits for socket c, which has already left its
\* rooms (r is the membership without c)
DisconnectEmits(us, r, c) ==
  IF c \notin DOMAIN us THEN <<>>
  ELSE (IF us[c].peerId # NULL
        THEN << EmitOthers(r, c, "peer_left", [peerId |-> us[c].peerId]) >>
        ELSE <<>>)
       \o (IF us[c].role = "admin"
           THEN << EmitAll(r, "session_ended", SessionEnded) >>
           ELSE << EmitOthers(r, c, "user_left", [userId |-> c]) >>)

\* mutant of EndsSession: every leaving user ends the session
EndsSessionAnyUser(c) == IsUser(c)

\* user.role === 'admin' in leave_session and in the 'disconnect' handler
EndsSession(c) == IsUser(c) /\ users[c].role = "admin"

\* Socket c closes (transport close, or socket.disconnect() on the server):
\* it leaves every room and is removed from io.sockets.sockets, then its
\* 'disconnect' handler runs.
CloseSocket(c) ==
  /\ conn' = [conn EXCEPT ![c] = "closed"]
  /\ room' = room \ {c}
  /\ sent' = DisconnectEmits(users, room \ {c}, c)
  /\ IF EndsSession(c)
     THEN /\ admin' = NULL
          /\ users' = NoUsers
          /\ chat' = <<>>
          /\ drawingEnabled' = TRUE
     ELSE /\ users' = DelUser(users, c)
          /\ UNCHANGED <<admin, chat, drawingEnabled>>

\* the client goes away
DisconnectHandler(c) ==
  /\ CanHandle(c)
  /\ CloseSocket(c)
  /\ Handled("disconnect", c, NoData)
  /\ UNCHANGED <<kicked, kicker, media, authUsers, pending>>
  /\ UNCHANGED <<timers, now, nextObj, deleted, up>>

\* disconnect, whatever the clients do with the events it emits
Disconnect(c) ==
  /\ DisconnectHandler(c)
  /\ UNCHANGED classroom

\* leave_session cleans up itself and then calls socket.disconnect(), whose
\* 'disconnect' handler finds no user entry left for the socket
LeaveSessionHandler(c) ==
  /\ CanHandle(c)
  /\ IF EndsSession(c)
     THEN /\ sent' = << EmitAll(room, "session_ended", SessionEnded) >>
          /\ admin' = NULL
          /\ users' = NoUsers
          /\ chat' = <<>>
          /\ drawingEnabled' = TRUE
     ELSE /\ sent' = IF IsUser(c)
                     THEN << EmitOthers(room, c, "user_left", [userId |-> c]) >>
                     ELSE <<>>
          /\ users' = DelUser(users, c)
          /\ UNCHANGED <<admin, chat, drawingEnabled>>
  /\ conn' = [conn EXCEPT ![c] = "closed"]
  /\ room' = room \ {c}
  /\ Handled("leave_session", c, NoData)
  /\ UNCHANGED <<kicked, kicker, media, authUsers, pending>>
  /\ UNCHANGED <<timers, now, nextObj, deleted, up>>

\* leave_session, whatever the clients do with the events it emits
LeaveSession(c) ==
  /\ LeaveSessionHandler(c)
  /\ UNCHANGED classroom

\* ---------------------------------------------------------------- chat
\* Date.now().toString() is modelled by the clock value itself: toString is
\* injective and ids are only compared for equality.
ChatId == now

\* mutant of NewMessage: the sender's role is not looked up
NewMessageAsStudent(c, message) ==
  [id |-> ChatId, userId |-> c, username |-> users[c].name, message |-> message,
   timestamp |-> now, role |-> "student", obj |-> nextObj]

NewMessage(c, message) ==
  [id |-> ChatId, userId |-> c, username |-> users[c].name, message |-> message,
   timestamp |-> now, role |-> users[c].role,
   obj |-> nextObj]   \* identity of the message object, not a field of it

ChatMessageHandler(c, message) ==
  /\ CanHandle(c)
  /\ IF IsUser(c)
     THEN /\ chat' = Append(chat, NewMessage(c, message))
          /\ nextObj' = nextObj + 1
          /\ sent' = << EmitAll(room, "new_message", NewMessage(c, message)) >>
     ELSE /\ sent' = <<>>
          /\ UNCHANGED <<chat, nextObj>>
  /\ Handled("chat_message", c, [message |-> message])
  /\ UNCHANGED <<kicked, kicker, media, authUsers, pending>>
  /\ UNCHANGED <<admin, users, drawingEnabled, conn, room, timers,
                 now, deleted, up>>

\* chat_message, whatever the clients do with the events it emits
ChatMessage(c, message) ==
  /\ ChatMessageHandler(c, message)
  /\ UNCHANGED classroom

\* mutant of FilterChat: the comparison is inverted
FilterChatInverted(log, messageId) == SelectSeq(log, LAMBDA m : m.id = messageId)

\* appState.chat.filter(msg => msg.id !== messageId)
FilterChat(log, messageId) == SelectSeq(log, LAMBDA m : m.id # messageId)

DeleteMessageHandler(c, messageId) ==
  /\ CanHandle(c)
  /\ IF IsAdmin(c)
     THEN /\ chat' = FilterChat(chat, messageId)
          /\ deleted' = deleted \cup
               { chat[i].obj : i \in { j \in 1..Len(chat) : chat[j].id = messageId } }
          /\ sent' = << EmitAll(room, "message_deleted", [messageId |-> messageId]) >>
     ELSE /\ sent' = <<>>
          /\ UNCHANGED <<chat, deleted>>
  /\ Handled("delete_message", c, [messageId |-> messageId])
  /\ UNCHANGED <<kicked, kicker, media, authUsers, pending>>
  /\ UNCHANGED <<admin, users, drawingEnabled, conn, room, timers,
                 now, nextObj, up>>

\* delete_message, whatever the clients do with the events it emits
DeleteMessage(c, messageId) ==
  /\ DeleteMessageHandler(c, messageId)
  /\ UNCHANGED classroom

\* ---------------------------------------------------------------- whiteboard
\* mutant of MayDraw: the per-user flag is not consulted
MayDrawIgnoringUser(u) == u.role = "admin" \/ drawingEnabled

\* user.role === 'admin' || (appState.drawingEnabled && user.canDraw)
MayDraw(u) == u.role = "admin" \/ (drawingEnabled /\ u.canDraw)

DrawData(c) ==
  /\ CanHandle(c)
  /\ sent' = IF IsUser(c) /\ MayDraw(users[c])
             THEN << EmitOthers(room, c, "draw_data", [userId |-> c]) >>
             ELSE <<>>
  /\ Handled("draw_data", c, NoData)
  /\ UNCHANGED <<kicked, kicker, media, authUsers, pending, classroom>>
  /\ UNCHANGED <<admin, users, chat, drawingEnabled, conn, room,
                 timers, now, nextObj, deleted, up>>

ClearCanvas(c) ==
  /\ CanHandle(c)
  /\ sent' = IF IsAdmin(c) THEN << EmitAll(room, "clear_canvas", NoData) >>
             ELSE <<>>
  /\ Handled("clear_canvas", c, NoData)
  /\ UNCHANGED <<kicked, kicker, media, authUsers, pending, classroom>>
  /\ UNCHANGED <<admin, users, chat, drawingEnabled, conn, room,
                 timers, now, nextObj, deleted, up>>

ToggleDrawHandler(c, enabled) ==
  /\ CanHandle(c)
  /\ IF IsAdmin(c)
     THEN /\ drawingEnabled' = enabled
          /\ sent' = << EmitAll(room, "drawing_toggled", [enabled |-> enabled]) >>
     ELSE /\ sent' = <<>>
          /\ UNCHANGED drawingEnabled
  /\ Handled("toggle_draw", c, [enabled |-> enabled])
  /\ UNCHANGED <<kicked, kicker, media, authUsers, pending>>
  /\ UNCHANGED <<admin, users, chat, conn, room, timers, now,
                 nextObj, deleted, up>>

\* toggle_draw, whatever the clients do with the events it emits
ToggleDraw(c, enabled) ==
  /\ ToggleDrawHandler(c, enabled)
  /\ UNCHANGED classroom

SetUserDrawHandler(c, targetUserId, canDraw) ==
  /\ CanHandle(c)
  /\ IF IsAdmin(c) /\ IsUser(targetUserId)
     THEN /\ users' = [users EXCEPT ![targetUserId].canDraw = canDraw]
          /\ sent' = << EmitAll(room, "user_updated",
                          [userId |-> targetUserId, user |-> users'[targetUserId]]) >>
     ELSE /\ sent' = <<>>
          /\ UNCHANGED users
  /\ Handled("set_user_draw", c, [targetUserId |-> targetUserId, canDraw |-> canDraw])
  /\ UNCHANGED <<kicked, kicker, media, authUsers, pending>>
  /\ UNCHANGED <<admin, chat, drawingEnabled, conn, room, timers,
                 now, nextObj, deleted, up>>

\* set_user_draw, whatever the clients do with the events it emits
SetUserDraw(c, targetUserId, canDraw) ==
  /\ SetUserDrawHandler(c, targetUserId, canDraw)
  /\ UNCHANGED classroom

\* ---------------------------------------------------------------- kick_user
\* mutant of TargetSocket: the lookup never finds a socket
TargetSocketNever(targetUserId) == FALSE

\* io.sockets.sockets.get(targetUserId)
TargetSocket(targetUserId) ==
  targetUserId \in Sockets /\ conn[targetUserId] = "open"

\* mutant of KickFallbackEmits: the entry's presence is not checked
KickFallbackEmitsAlways(targetUserId) ==
  << EmitAll(room, "user_left", [userId |-> targetUserId]) >>

\* if (appState.users[targetUserId]) { ...; io.to('classroom').emit('user_left') }
KickFallbackEmits(targetUserId) ==
  IF IsUser(targetUserId)
  THEN << EmitAll(room, "user_left", [userId |-> targetUserId]) >>
  ELSE <<>>

KickUser(c, targetUserId) ==
  /\ CanHandle(c)
  /\ IF IsAdmin(c)
     THEN IF TargetSocket(targetUserId)
          THEN /\ sent' = << Emit(targetUserId, "kicked",
                                  [reason |-> "Removed by admin"]) >>
               /\ timers' = [timers EXCEPT ![targetUserId] = @ + 1]
               /\ kicked' = IF IsUser(targetUserId) /\ users[targetUserId].role = "student"
                             THEN kicked \cup {targetUserId} ELSE kicked
               /\ kicker' = [kicker EXCEPT ![targetUserId] = @ \cup {c}]
               /\ UNCHANGED users
          ELSE /\ sent' = KickFallbackEmits(targetUserId)
               /\ users' = DelUser(users, targetUserId)
               /\ UNCHANGED <<timers, kicked, kicker>>
     ELSE /\ sent' = <<>>
          /\ UNCHANGED <<users, timers, kicked, kicker>>
  /\ Handled("kick_user", c, [targetUserId |-> targetUserId])
  /\ UNCHANGED <<media, authUsers, pending, classroom>>
  /\ UNCHANGED <<admin, chat, drawingEnabled, conn, room, now,
                 nextObj, deleted, up>>

\* setTimeout(() => targetSocket.disconnect(true), 100) fires;
\* disconnect() returns at once when the socket is no longer connected.
\* A timer armed within the run always gets to fire: it is no client event.
KickTimer(t) ==
  /\ up
  /\ timers[t] > 0
  /\ timers' = [timers EXCEPT ![t] = @ - 1]
  /\ IF conn[t] = "open"
     THEN CloseSocket(t)
     ELSE /\ sent' = <<>>
          /\ UNCHANGED <<admin, users, chat, drawingEnabled, conn, room>>
  /\ lastOp' = Op("kick_timer", t, [connected |-> conn[t] = "open"])
  /\ kicker' = [kicker EXCEPT ![t] = IF timers[t] = 1 THEN {} ELSE @]
  /\ UNCHANGED <<kicked, media, authUsers, pending, classroom>>
  /\ UNCHANGED <<now, nextObj, deleted, up, steps>>

\* ---------------------------------------------------------------- stream_status
StreamStatus(c, streamActive) ==
  /\ CanHandle(c)
  /\ IF IsUser(c)
     THEN /\ users' = [users EXCEPT ![c].streamActive = streamActive]
          /\ sent' = << EmitOthers(room, c, "user_stream_status",
                          [userId |-> c, streamActive |-> streamActive]) >>
     ELSE /\ sent' = <<>>
          /\ UNCHANGED users
  /\ Handled("stream_status", c, [streamActive |-> streamActive])
  /\ UNCHANGED <<kicked, kicker, media, authUsers, pending, classroom>>
  /\ UNCHANGED <<admin, chat, drawingEnabled, conn, room, timers,
                 now, nextObj, deleted, up>>

\* ---------------------------------------------------------------- GET /state
\* the body of the response of GET /state
StateResponse ==
  [userCount |-> Cardinality(DOMAIN users),
   hasAdmin |-> admin # NULL,
   chatMessages |-> Len(chat),
   drawingEnabled |-> drawingEnabled]

\* app.get('/state', ...): res.json(...) to the HTTP client, which is no socket
GetState ==
  /\ up /\ steps < MaxSteps
  /\ sent' = << [ev |-> "res.json", to |-> {}, data |-> StateResponse] >>
  /\ Handled("get_state", NULL, NoData)
  /\ UNCHANGED <<kicked, kicker, media, authUsers, pending, classroom>>
  /\ UNCHANGED <<admin, users, chat, drawingEnabled, conn, room, timers,
                 now, nextObj, deleted, up>>

\* ---------------------------------------------------------------- clock
\* a millisecond passes
Tick ==
  /\ up /\ steps < MaxSteps
  /\ now' = now + 1
  /\ sent' = <<>>
  /\ Handled("tick", NULL, NoData)
  /\ UNCHANGED <<kicked, kicker, media, authUsers, pending, classroom>>
  /\ UNCHANGED <<admin, users, chat, drawingEnabled, conn, room, timers,
                 nextObj, deleted, up>>

Next ==
  \/ \E c \in Sockets, k \in Codes : JoinRoom(c, NameOf[c], k)
  \/ \E c \in Sockets, k \in Codes : SetAdmin(c, k)
  \/ \E c \in Sockets, p \in PeerPayloads : PeerReady(c, p)
  \/ \E c \in Sockets, p \in PeerPayloads : PeerLeft(c, p)
  \/ \E c \in Sockets, p \in PeerPayloads : PeerJoined(c, p, NameOf[c], "student")
  \/ \E c \in Sockets : LeaveSession(c)
  \/ \E c \in Sockets, m \in Texts : ChatMessage(c, m)
  \/ \E c \in Sockets, i \in 0..now : DeleteMessage(c, i)
  \/ \E c \in Sockets : DrawData(c)
  \/ \E c \in Sockets : ClearCanvas(c)
  \/ \E c \in Sockets, e \in BOOLEAN : ToggleDraw(c, e)
  \/ \E c \in Sockets, t \in Targets, e \in BOOLEAN : SetUserDraw(c, t, e)
  \/ \E c \in Sockets, t \in Targets : KickUser(c, t)
  \/ \E t \in Sockets : KickTimer(t)
  \/ \E c \in Sockets, e \in BOOLEAN : StreamStatus(c, e)
  \/ \E c \in Sockets : Disconnect(c)
  \/ GetState
  \/ Tick

Spec == Init /\ [][Next]_vars

\* the event loop runs every armed setTimeout callback while the process lives
FairSpec == Spec /\ \A t \in Sockets : WF_vars(KickTimer(t))

\* ---------------------------------------------------------------- media layer
\* SimpleVideoCall.tsx of the client behind each socket. PeerJS gives every
\* client an id of its own.
ClientPeerId == [c \in Sockets |-> IF c = "s1" THEN "p1" ELSE IF c = "s2" THEN "p2" ELSE "p3"]

\* the events among the emits q that are addressed to client x, in order
RECURSIVE ToClient(_, _)
ToClient(q, x) ==
  IF q = <<>> THEN <<>>
  ELSE (IF x \in Head(q).to THEN << [ev |-> Head(q).ev, data |-> Head(q).data] >> ELSE <<>>)
       \o ToClient(Tail(q), x)

\* peerInstance.on('open'): setMyPeerId, setPeer, socket.emit('peer_ready'); the
\* effect that registers the socket handlers runs again and closes over the
\* connectedPeers of that render. The server handles peer_ready and its emits
\* travel to the clients.
ClientOpen(c) ==
  /\ myPeerId[c] = NULL
  /\ PeerReadyHandler(c, ClientPeerId[c])
  /\ myPeerId' = [myPeerId EXCEPT ![c] = ClientPeerId[c]]
  /\ handlerPeers' = [handlerPeers EXCEPT ![c] = connectedPeers[c]]
  /\ inbox' = [x \in Sockets |-> inbox[x] \o ToClient(sent', x)]
  /\ UNCHANGED <<connectedPeers, calls, authUsers>>

\* the peers a handler of client c calls out of the candidates ps: none before
\* its peer is open, never itself, none its closure holds as connected
NewPeers(c, ps) ==
  IF myPeerId[c] = NULL THEN {}
  ELSE { p \in ps : p # myPeerId[c] /\ p \notin handlerPeers[c] }

\* setConnectedPeers and peer.call(peerId, localStream) for each peer of ps
CallPeers(c, ps) ==
  /\ connectedPeers' = [connectedPeers EXCEPT ![c] = @ \cup ps]
  /\ calls' = calls \cup { [from |-> myPeerId[c], to |-> p] : p \in ps }

\* handlePeersInRoom runs for the next event of client c
HandlePeersInRoom(c) ==
  /\ inbox[c] # <<>>
  /\ Head(inbox[c]).ev = "peers_in_room"
  /\ CallPeers(c, NewPeers(c, { p.peerId : p \in Head(inbox[c]).data.peers }))
  /\ inbox' = [inbox EXCEPT ![c] = Tail(@)]
  /\ UNCHANGED <<myPeerId, handlerPeers, authUsers>>
  /\ UNCHANGED <<admin, users, chat, drawingEnabled, conn, room, timers, kicked,
                 kicker, now, nextObj, deleted, up, sent, lastOp, steps, pending,
                 classroom>>

\* handlePeerJoined runs for the next event of client c
HandlePeerJoined(c) ==
  /\ inbox[c] # <<>>
  /\ Head(inbox[c]).ev = "peer_joined"
  /\ CallPeers(c, NewPeers(c, { Head(inbox[c]).data.peerId }))
  /\ inbox' = [inbox EXCEPT ![c] = Tail(@)]
  /\ UNCHANGED <<myPeerId, handlerPeers, authUsers>>
  /\ UNCHANGED <<admin, users, chat, drawingEnabled, conn, room, timers, kicked,
                 kicker, now, nextObj, deleted, up, sent, lastOp, steps, pending,
                 classroom>>

\* three participants have joined the room and none has opened its video call
MediaInit ==
  /\ admin = NULL
  /\ users = [c \in Sockets |-> NewUser(NameOf[c], "student")]
  /\ chat = <<>>
  /\ drawingEnabled = TRUE
  /\ conn = [c \in Sockets |-> "open"]
  /\ room = Sockets
  /\ timers = [c \in Sockets |-> 0]
  /\ kicked = {}
  /\ kicker = [c \in Sockets |-> {}]
  /\ now = 0
  /\ nextObj = 0
  /\ deleted = {}
  /\ up = TRUE
  /\ sent = <<>>
  /\ lastOp = Op("init", NULL, NoData)
  /\ steps = 0
  /\ myPeerId = [c \in Sockets |-> NULL]
  /\ connectedPeers = [c \in Sockets |-> {}]
  /\ handlerPeers = [c \in Sockets |-> {}]
  /\ inbox = [c \in Sockets |-> <<>>]
  /\ calls = {}
  /\ authUsers = <<>>
  /\ pending = <<>>
  /\ classroom = [c \in Sockets |-> ClassroomInitial]

MediaNext ==
  \/ \E c \in Sockets : ClientOpen(c)
  \/ \E c \in Sockets : HandlePeersInRoom(c)
  \/ \E c \in Sockets : HandlePeerJoined(c)

MediaSpec == MediaInit /\ [][MediaNext]_vars

\* ---------------------------------------------------------------- auth.js
\* Strings of the request body are sequences of characters; the empty
\* sequence stands for an absent or empty field, which `!field` treats alike.
AuthEmails ==
  { <<"a", "@", "x", ".", "i", "o">>, <<"b", "@", "x", ".", "i", "o">>,
    <<"a", "@", "x">>, <<>> }
AuthNames == { <<"a", "n", "n">>, <<"b", "o">>, <<>> }
AuthPasswords == { <<"s", "e", "c", "r", "e", "t">>, <<"s", "h", "o", "r", "t">>, <<>> }
AuthRoles == {"student", "admin", "teacher", NoCode}
Requests ==
  [email : AuthEmails, username : AuthNames, password : AuthPasswords,
   role : AuthRoles, adminCode : Codes]

\* /^[^\s@]+@[^\s@]+\.[^\s@]+$/.test(e)
EmailRegexTest(e) ==
  /\ \A k \in 1..Len(e) : e[k] # " "
  /\ \E i \in 2..Len(e) :
       /\ e[i] = "@"
       /\ \A k \in 1..Len(e) : e[k] = "@" => k = i
       /\ \E j \in (i + 2)..(Len(e) - 1) : e[j] = "."

\* password.length < 6 rejects
MinPasswordLen == 6

\* role = 'student' when the body has none
RoleOf(req) == IF req.role = NoCode THEN "student" ELSE req.role

\* mutant of AdminCodeAccepted: the code is not compared
AdminCodeAcceptedAlways(code) == TRUE

\* the negation of `!adminCode || adminCode !== ADMIN_CODE`
AdminCodeAccepted(code) == code # NoCode /\ code = adminCode

\* findUserByEmailOrUsername(value): the position of the first stored user
\* whose email or username is value, 0 for null
FindUserByEmailOrUsername(us, value) ==
  LET hits == { i \in 1..Len(us) : us[i].email = value \/ us[i].username = value }
  IN IF hits = {} THEN 0 ELSE CHOOSE i \in hits : \A j \in hits : i <= j

\* findUserByEmailOrUsername(email) || findUserByEmailOrUsername(username)
ExistingUser(us, req) ==
  IF FindUserByEmailOrUsername(us, req.email) # 0
  THEN FindUserByEmailOrUsername(us, req.email)
  ELSE FindUserByEmailOrUsername(us, req.username)

\* createUser: the stored record; the id is unique, the password is hashed
NewAccount(us, req) ==
  [id |-> Len(us) + 1, email |-> req.email, username |-> req.username,
   password |-> <<"bcrypt", req.password>>, role |-> RoleOf(req)]

\* the response of register, check by check
RegisterResponse(us, req) ==
  IF req.email = <<>> \/ req.username = <<>> \/ req.password = <<>>
  THEN [status |-> 400, error |-> "Email, username, and password are required"]
  ELSE IF ~EmailRegexTest(req.email)
  THEN [status |-> 400, error |-> "Invalid email format"]
  ELSE IF Len(req.password) < MinPasswordLen
  THEN [status |-> 400, error |-> "Password must be at least 6 characters"]
  ELSE IF RoleOf(req) \notin {"student", "admin"}
  THEN [status |-> 400, error |-> "Role must be either student or admin"]
  ELSE IF RoleOf(req) = "admin" /\ ~AdminCodeAccepted(req.adminCode)
  THEN [status |-> 403, error |-> "Invalid admin code"]
  ELSE IF ExistingUser(us, req) # 0
  THEN [status |-> 409,
        error |-> IF us[ExistingUser(us, req)].email = req.email
                  THEN "Email already registered" ELSE "Username already taken"]
  ELSE [status |-> 201,
        token |-> [userId |-> Len(us) + 1, username |-> req.username,
                   role |-> RoleOf(req)],
        user |-> [id |-> Len(us) + 1, email |-> req.email,
                  username |-> req.username, role |-> RoleOf(req)]]

\* POST /api/auth/register
Register(req) ==
  /\ up /\ steps < MaxRequests
  /\ sent' = << [ev |-> "res.json", to |-> {}, data |-> RegisterResponse(authUsers, req)] >>
  /\ authUsers' = IF RegisterResponse(authUsers, req).status = 201
                  THEN Append(authUsers, NewAccount(authUsers, req))
                  ELSE authUsers
  /\ Handled("register", NULL, req)
  /\ UNCHANGED <<admin, users, chat, drawingEnabled, conn, room, timers, kicked,
                 kicker, now, nextObj, deleted, up, media, pending, classroom>>

AuthNext == \E req \in Requests : Register(req)

AuthSpec == Init /\ [][AuthNext]_vars

\* ---------------------------------------------------------------- concurrent register
\* register is an async function: a request runs up to `await bcrypt.hash`, the
\* event loop then serves other requests, and the rest of the request runs when
\* its hash is done. The two lookups of the existence check are separated by
\* awaits of already settled promises only and run without any other request
\* in between; createUser reads, extends and writes the file synchronously.
RaceRequests ==
  [email : {<<"a", "@", "x", ".", "i", "o">>, <<"b", "@", "x", ".", "i", "o">>},
   username : {<<"a", "n", "n">>, <<"b", "o">>},
   password : {<<"s", "e", "c", "r", "e", "t">>, <<"s", "h", "o", "r", "t">>},
   role : {NoCode}, adminCode : {NoCode}]

\* register from its start to `await bcrypt.hash(password, 10)`: a request the
\* checks reject is answered, one they pass waits for its hash
RegisterCheck(req) ==
  /\ up /\ steps < MaxRequests
  /\ IF RegisterResponse(authUsers, req).status = 201
     THEN /\ pending' = Append(pending, req)
          /\ sent' = <<>>
     ELSE /\ sent' = << [ev |-> "res.json", to |-> {},
                         data |-> RegisterResponse(authUsers, req)] >>
          /\ UNCHANGED pending
  /\ Handled("register", NULL, req)
  /\ UNCHANGED <<admin, users, chat, drawingEnabled, conn, room, timers, kicked,
                 kicker, now, nextObj, deleted, up, media, authUsers, classroom>>

\* register after bcrypt.hash of the k-th waiting request resolved: createUser
\* appends the account to the file and the request is answered 201
RegisterCreate(k) ==
  /\ up
  /\ k \in 1..Len(pending)
  /\ LET req == pending[k]
         user == NewAccount(authUsers, req)
     IN /\ authUsers' = Append(authUsers, user)
        /\ sent' = << [ev |-> "res.json", to |-> {},
                       data |-> [status |-> 201,
                                 token |-> [userId |-> user.id, username |-> user.username,
                                            role |-> user.role],
                                 user |-> [id |-> user.id, email |-> user.email,
                                           username |-> user.username,
                                           role |-> user.role]]] >>
        /\ lastOp' = Op("register_create", NULL, req)
  /\ pending' = [i \in 1..(Len(pending) - 1) |->
                   IF i < k THEN pending[i] ELSE pending[i + 1]]
  /\ UNCHANGED <<admin, users, chat, drawingEnabled, conn, room, timers, kicked,
                 kicker, now, nextObj, deleted, up, media, steps, classroom>>

RaceNext ==
  \/ \E req \in RaceRequests : RegisterCheck(req)
  \/ \E k \in 1..MaxRequests : RegisterCreate(k)

RaceSpec == Init /\ [][RaceNext]_vars

\* ---------------------------------------------------------------- App and Classroom
\* The listeners of one client run for the event e its socket received; v is
\* the client's state. Before the join App's join_success listener alone is
\* registered: it sets inClassroom, which mounts Classroom with its useState
\* initial values, and Classroom registers its listeners in the effect that
\* follows the mount, so they run for later events only. session_ended and
\* kicked call onLeaveSession, which unmounts Classroom.
Listen(v, e) ==
  IF ~v.inClassroom
  THEN IF e.ev = "join_success"
       THEN [ClassroomInitial EXCEPT !.inClassroom = TRUE]
       ELSE v
  ELSE CASE e.ev = "join_success" ->
              [v EXCEPT !.users = e.data.users, !.chatMessages = e.data.chat,
                        !.drawingEnabled = e.data.drawingEnabled]
         [] e.ev \in {"user_joined", "user_updated"} ->
              [v EXCEPT !.users = [x \in DOMAIN v.users \cup {e.data.userId} |->
                                     IF x = e.data.userId THEN e.data.user
                                     ELSE v.users[x]]]
         [] e.ev = "user_left" ->
              [v EXCEPT !.users = [x \in DOMAIN v.users \ {e.data.userId} |->
                                     v.users[x]]]
         [] e.ev = "new_message" ->
              [v EXCEPT !.chatMessages = Append(v.chatMessages, e.data)]
         [] e.ev = "message_deleted" ->
              [v EXCEPT !.chatMessages =
                 SelectSeq(v.chatMessages, LAMBDA m : m.id # e.data.messageId)]
         [] e.ev = "drawing_toggled" ->
              [v EXCEPT !.drawingEnabled = e.data.enabled]
         [] e.ev \in {"session_ended", "kicked"} -> ClassroomInitial
         [] OTHER -> v

\* the clients' states after the emits q reached their recipients, in order
RECURSIVE Deliver(_, _)
Deliver(cl, q) ==
  IF q = <<>> THEN cl
  ELSE Deliver([c \in Sockets |->
                  IF c \in Head(q).to THEN Listen(cl[c], Head(q)) ELSE cl[c]],
               Tail(q))

\* every client has handled the events of the server's last handler
ClientsListen == classroom' = Deliver(classroom, sent')

ViewNext ==
  \/ \E c \in Sockets, k \in Codes : JoinRoomHandler(c, NameOf[c], k) /\ ClientsListen
  \/ \E c \in Sockets : LeaveSessionHandler(c) /\ ClientsListen
  \/ \E c \in Sockets : DisconnectHandler(c) /\ ClientsListen
  \/ \E c \in Sockets, m \in Texts : ChatMessageHandler(c, m) /\ ClientsListen
  \/ \E c \in Sockets, i \in 0..now : DeleteMessageHandler(c, i) /\ ClientsListen
  \/ \E c \in Sockets, e \in BOOLEAN : ToggleDrawHandler(c, e) /\ ClientsListen
  \/ \E c \in Sockets, t \in Targets, e \in BOOLEAN :
        SetUserDrawHandler(c, t, e) /\ ClientsListen
  \/ Tick

ViewSpec == Init /\ [][ViewNext]_vars

\* ================================================================ properties
\* the roster entries that hold the owner role
Owners(us) == { c \in DOMAIN us : us[c].role = "admin" }
HoldsOwner(us, c) == c \in DOMAIN us /\ us[c].role = "admin"
TheOp == lastOp'.op
TheSocket == lastOp'.socket
RoomIsReset(a, us, log, de) == a = NULL /\ us = NoUsers /\ log = <<>> /\ de = TRUE

\* C1: in every reachable state at most one roster entry has the owner role
\* ('admin'), whatever joins, set_admin, leaves, disconnects and kicks ran.
C1_AtMostOneOwner == Cardinality(Owners(users)) <= 1

\* a second join presented the correct code while another connection is owner
C1_Witness ==
  /\ lastOp.op = "join_room" /\ lastOp.data.adminCode = adminCode
  /\ \E a \in Owners(users) : a # lastOp.socket
  /\ HoldsOwner(users, lastOp.socket) = FALSE /\ lastOp.socket \in DOMAIN users

\* C2: when the connection recorded as appState.admin terminates (leave_session,
\* disconnect, or the disconnect forced by a kick), the room is reset right
\* after: empty roster, empty chat, drawing enabled, no admin recorded.
C2_OwnerTerminationResets ==
  [][ ( /\ TheOp \in {"leave_session", "disconnect", "kick_timer"}
        /\ TheSocket = admin
        /\ conn[TheSocket] = "open" /\ conn'[TheSocket] = "closed" )
      => RoomIsReset(admin', users', chat', drawingEnabled') ]_vars

\* C3: an owner-only operation invoked by a connection that does not hold the
\* owner role changes nothing of the room and sends nothing to anyone.
OwnerOnlyOps ==
  {"delete_message", "clear_canvas", "toggle_draw", "set_user_draw", "kick_user"}

C3_NonOwnerIsNoOp ==
  [][ (TheOp \in OwnerOnlyOps /\ ~HoldsOwner(users, TheSocket))
      => /\ UNCHANGED <<admin, users, chat, drawingEnabled, conn, room, timers>>
         /\ sent' = <<>> ]_vars

\* a participant tried to kick another roster member and nothing happened
C3_Witness ==
  /\ lastOp.op = "kick_user"
  /\ lastOp.socket \in DOMAIN users /\ users[lastOp.socket].role = "student"
  /\ lastOp.data.targetUserId \in DOMAIN users
  /\ lastOp.data.targetUserId # lastOp.socket
  /\ sent = <<>>

\* C4: a draw_data of a joined connection is forwarded (to the others in the
\* room, once) iff the sender is owner, or drawing is enabled and the sender's
\* canDraw is set; otherwise nothing at all is sent.
C4_DrawForwardedIffAuthorized ==
  (lastOp.op = "draw_data" /\ lastOp.socket \in DOMAIN users) =>
    LET c == lastOp.socket
        u == users[c]
    IN IF u.role = "admin" \/ (drawingEnabled /\ u.canDraw)
       THEN sent = << [ev |-> "draw_data", to |-> room \ {c},
                       data |-> [userId |-> c]] >>
       ELSE sent = <<>>

\* a participant whose canDraw is off drew while drawing was globally enabled
C4_Witness ==
  /\ lastOp.op = "draw_data" /\ lastOp.socket \in DOMAIN users
  /\ users[lastOp.socket].role = "student"
  /\ ~users[lastOp.socket].canDraw /\ drawingEnabled
  /\ sent = <<>>

\* C5: a join that presents the configured code while no roster entry holds
\* the owner role becomes owner and is recorded as appState.admin.
C5_ClaimWithoutOwnerWins ==
  [][ ( /\ TheOp = "join_room"
        /\ lastOp'.data.adminCode = adminCode
        /\ Owners(users) = {} )
      => /\ HoldsOwner(users', TheSocket)
         /\ admin' = TheSocket ]_vars

\* C6: a join with a wrong code, without a code, or with the correct code
\* while an owner exists is a normal participant join: role participant,
\* canDraw set, the usual join_success and no error to the joiner, and the
\* existing owner keeps its role and stays recorded.
C6_FailedClaimIsPlainJoin ==
  [][ ( /\ TheOp = "join_room"
        /\ (lastOp'.data.adminCode # adminCode \/ Owners(users) # {}) )
      => /\ TheSocket \in DOMAIN users'
         /\ users'[TheSocket].role = "student"
         /\ users'[TheSocket].canDraw
         /\ sent'[1] = [ev |-> "join_success", to |-> {TheSocket},
                        data |-> [role |-> "student", users |-> users',
                                  chat |-> chat', drawingEnabled |-> drawingEnabled',
                                  isAdmin |-> FALSE]]
         /\ \A i \in 1..Len(sent') : sent'[i].ev \in {"join_success", "user_joined"}
         /\ admin' = admin
         /\ Owners(users') = Owners(users) ]_vars

\* C7: the ids of the messages in chat are pairwise distinct, and the messages
\* stand in the order in which their chat_message events were handled.
C7_ChatIdsDistinctInOrder ==
  \A i, j \in 1..Len(chat) :
    i < j => chat[i].id # chat[j].id /\ chat[i].obj < chat[j].obj

\* C8: a chat_message of a joined connection appends exactly one message, with
\* the sender's id, name and role, and sends new_message with that message to
\* everyone in the room, the roster and the sender included.
C8_ChatSendAppendsAndBroadcasts ==
  [][ (TheOp = "chat_message" /\ TheSocket \in DOMAIN users)
      => /\ Len(chat') = Len(chat) + 1
         /\ SubSeq(chat', 1, Len(chat)) = chat
         /\ LET m == chat'[Len(chat')]
            IN /\ m.userId = TheSocket
               /\ m.username = users[TheSocket].name
               /\ m.role = users[TheSocket].role
               /\ m.message = lastOp'.data.message
               /\ sent' = << [ev |-> "new_message", to |-> room, data |-> m] >>
         /\ DOMAIN users \subseteq room
         /\ UNCHANGED users ]_vars

\* the owner sent a message while another connection was in the roster
C8_Witness ==
  /\ lastOp.op = "chat_message"
  /\ HoldsOwner(users, lastOp.socket)
  /\ Cardinality(DOMAIN users) >= 2
  /\ Len(sent) = 1 /\ DOMAIN users \subseteq sent[1].to

\* C9: a message that the owner's delete_message removed is in no later chat
\* log, and so in no snapshot a later join receives.
C9_DeletedStaysOutOfSnapshots ==
  /\ \A i \in 1..Len(chat) : chat[i].obj \notin deleted
  /\ lastOp.op = "join_room" =>
       \A i \in 1..Len(sent[1].data.chat) : sent[1].data.chat[i].obj \notin deleted

\* a connection joined after a message had been sent and deleted
C9_Witness ==
  /\ lastOp.op = "join_room"
  /\ deleted # {}
  /\ sent[1].ev = "join_success"

\* C10: no two roster entries hold the same registered (non-null) peerId.
C10_PeerIdsUnique ==
  \A a, b \in DOMAIN users :
    (a # b /\ users[a].peerId # NULL) => users[a].peerId # users[b].peerId

\* ---------------------------------------------------------------- C11..C20
\* socket c's connection ends in this step
Terminates(c) == conn[c] = "open" /\ conn'[c] = "closed"
TerminationOps == {"leave_session", "disconnect", "kick_timer"}
\* the positions in the emits q of the events named ev
Positions(q, ev) == { i \in 1..Len(q) : q[i].ev = ev }
\* what peer_ready is to list for c: the other users with a registered handle
RegisteredOthers(us, c) ==
  { [peerId |-> us[x].peerId, userName |-> us[x].name, userRole |-> us[x].role] :
      x \in { y \in DOMAIN us \ {c} : us[y].peerId # NULL } }

\* C11: peer_ready with the handle the caller has already registered changes
\* nothing of the room and sends nothing: no peer_joined, no peers_in_room.
C11_PeerReadyIdempotent ==
  [][ ( /\ TheOp = "peer_ready"
        /\ TheSocket \in DOMAIN users
        /\ users[TheSocket].peerId = lastOp'.data.peerId )
      => /\ UNCHANGED <<admin, users, chat, drawingEnabled, conn, room, timers>>
         /\ sent' = <<>> ]_vars

\* a connection repeated peer_ready with its registered handle
C11_Witness ==
  /\ lastOp.op = "peer_ready"
  /\ lastOp.socket \in DOMAIN users
  /\ users[lastOp.socket].peerId = lastOp.data.peerId
  /\ sent = <<>>

\* C12: peer_ready with a new handle answers the caller with exactly the
\* {peerId, userName, userRole} of every other roster entry that has a
\* registered handle, and announces the caller's handle, name and role to
\* everyone else in the room, which contains every other roster connection.
C12_PeerReadyListsAndAnnounces ==
  [][ ( /\ TheOp = "peer_ready"
        /\ TheSocket \in DOMAIN users
        /\ users[TheSocket].peerId # lastOp'.data.peerId )
      => /\ sent' = << [ev |-> "peers_in_room", to |-> {TheSocket},
                        data |-> [peers |-> RegisteredOthers(users, TheSocket)]],
                       [ev |-> "peer_joined", to |-> room \ {TheSocket},
                        data |-> [peerId |-> lastOp'.data.peerId,
                                  userName |-> users[TheSocket].name,
                                  userRole |-> users[TheSocket].role]] >>
         /\ DOMAIN users \ {TheSocket} \subseteq room ]_vars

C14_PeerLeftBeforeRemoval ==
  [][ ( /\ TheOp \in TerminationOps
        /\ TheSocket \in DOMAIN users
        /\ Terminates(TheSocket)
        /\ users[TheSocket].peerId # NULL )
      => /\ Len(sent') = 2
         /\ sent'[1] = [ev |-> "peer_left", to |-> room \ {TheSocket},
                        data |-> [peerId |-> users[TheSocket].peerId]]
         /\ sent'[2].ev \in {"user_left", "session_ended"} ]_vars

\* the termination notices of connection c among the emits of this step:
\* user_left for c, or session_ended when c is the socket that terminates
Notices(c) ==
  { i \in 1..Len(sent') :
      \/ sent'[i].ev = "user_left" /\ sent'[i].data.userId = c
      \/ sent'[i].ev = "session_ended" /\ TheSocket = c }

\* C15: the cleanup of a roster connection (its removal and the one user_left
\* or session_ended notice) runs in the step in which its socket closes and in
\* no other step; a closed socket stays closed and out of the roster, so the
\* cleanup runs exactly once however the termination triggers interleave.
C15_CleanupExactlyOnce ==
  [][ \A c \in Sockets :
        /\ conn[c] = "closed" => (conn'[c] = "closed" /\ c \notin DOMAIN users')
        /\ (Notices(c) # {}) <=> (Terminates(c) /\ c \in DOMAIN users)
        /\ (Notices(c) # {}) => (Cardinality(Notices(c)) = 1 /\ c \notin DOMAIN users') ]_vars

\* the forced disconnect of a kick fired after its target, a participant when
\* kicked, had already disconnected
C15_Witness ==
  /\ lastOp.op = "kick_timer"
  /\ ~lastOp.data.connected
  /\ lastOp.socket \in kicked
  /\ sent = <<>>

\* the last operation was a kick that reached the live socket of t
KickedLive(t) ==
  /\ lastOp.op = "kick_user"
  /\ sent = << [ev |-> "kicked", to |-> {t}, data |-> [reason |-> "Removed by admin"]] >>
\* the emits q carry user_left for t
LeftNotice(q, t) ==
  \E i \in 1..Len(q) : q[i].ev = "user_left" /\ q[i].data.userId = t

\* C16 as stated: after a kick that reached the live socket of t, provided the
\* process keeps running so that the timer fires, t is eventually out of the
\* roster and user_left for t has been sent.
C16_KickedEventuallyAnnounced ==
  \A t \in Sockets :
    KickedLive(t) ~> (~up \/ (t \notin DOMAIN users /\ LeftNotice(sent, t)))

\* C16 amended: a kick by a connection with the owner role whose target socket
\* is live sends kicked with the reason to the target alone, leaves the target
\* connected and in the roster and arms one timer; the timer closes a still
\* open target, which is then out of the roster, and user_left for it goes to
\* the others exactly when it was then in the roster as a participant; while
\* the process runs the target is eventually closed and out of the roster.
C16_KickNoticeThenTermination ==
  /\ [][ ( /\ TheOp = "kick_user"
           /\ TheSocket \in DOMAIN users
           /\ users[TheSocket].role = "admin"
           /\ lastOp'.data.targetUserId \in Sockets
           /\ conn[lastOp'.data.targetUserId] = "open" )
         => /\ sent' = << [ev |-> "kicked", to |-> {lastOp'.data.targetUserId},
                           data |-> [reason |-> "Removed by admin"]] >>
            /\ UNCHANGED <<admin, users, chat, drawingEnabled, conn, room>>
            /\ timers' = [timers EXCEPT ![lastOp'.data.targetUserId] = @ + 1] ]_vars
  /\ [][ ( TheOp = "kick_timer" /\ conn[TheSocket] = "open" )
         => /\ conn'[TheSocket] = "closed"
            /\ TheSocket \notin DOMAIN users'
            /\ LeftNotice(sent', TheSocket)
                 <=> (TheSocket \in DOMAIN users /\ users[TheSocket].role = "student")
            /\ \A i \in 1..Len(sent') :
                 sent'[i].ev = "user_left" => sent'[i].to = room \ {TheSocket} ]_vars
  /\ \A t \in Sockets :
       KickedLive(t) ~> (~up \/ (conn[t] = "closed" /\ t \notin DOMAIN users))

\* the timer of a kick closed the still open socket of a kicked participant,
\* and the others were sent user_left for it
C16_Witness ==
  /\ lastOp.op = "kick_timer"
  /\ lastOp.data.connected
  /\ lastOp.socket \in kicked
  /\ conn[lastOp.socket] = "closed"
  /\ LeftNotice(sent, lastOp.socket)

\* C17: a kick by a connection with the owner role whose target has no live
\* socket removes the target's roster entry and broadcasts user_left for it once
\* if such an entry exists, and otherwise changes nothing and sends nothing; no
\* other roster entry, the chat, drawingEnabled or the admin changes.
C17_KickOfGoneTargetIsSafe ==
  [][ ( /\ TheOp = "kick_user"
        /\ TheSocket \in DOMAIN users
        /\ users[TheSocket].role = "admin"
        /\ \/ lastOp'.data.targetUserId \notin Sockets
           \/ conn[lastOp'.data.targetUserId] = "closed" )
      => /\ UNCHANGED <<admin, chat, drawingEnabled, conn, room, timers, up>>
         /\ IF lastOp'.data.targetUserId \in DOMAIN users
            THEN /\ users' = [x \in DOMAIN users \ {lastOp'.data.targetUserId} |-> users[x]]
                 /\ sent' = << [ev |-> "user_left", to |-> room,
                                data |-> [userId |-> lastOp'.data.targetUserId]] >>
            ELSE /\ users' = users
                 /\ sent' = <<>> ]_vars

\* the owner kicked a connection that had already closed
C17_Witness ==
  /\ lastOp.op = "kick_user"
  /\ lastOp.socket \in DOMAIN users
  /\ users[lastOp.socket].role = "admin"
  /\ lastOp.data.targetUserId \in Sockets
  /\ conn[lastOp.data.targetUserId] = "closed"
  /\ sent = <<>>

\* C18: when a roster connection with the participant role terminates
\* (leave_session, disconnect, forced disconnect of a kick), exactly its own
\* entry leaves the roster, user_left for it is sent once to the others, who
\* include every other roster connection, no session_ended is sent, and the
\* chat, drawingEnabled and the admin are unchanged.
C18_ParticipantTerminationFrame ==
  [][ ( /\ TheOp \in TerminationOps
        /\ TheSocket \in DOMAIN users
        /\ users[TheSocket].role = "student"
        /\ Terminates(TheSocket) )
      => /\ users' = [x \in DOMAIN users \ {TheSocket} |-> users[x]]
         /\ UNCHANGED <<admin, chat, drawingEnabled>>
         /\ Cardinality(Positions(sent', "user_left")) = 1
         /\ Positions(sent', "session_ended") = {}
         /\ \A i \in Positions(sent', "user_left") :
              /\ sent'[i].data = [userId |-> TheSocket]
              /\ sent'[i].to = room \ {TheSocket}
              /\ DOMAIN users \ {TheSocket} \subseteq sent'[i].to ]_vars

\* a participant that had authored a chat message terminated while another
\* connection was in the roster
C18_Witness ==
  /\ lastOp.op \in TerminationOps
  /\ lastOp.socket \in Sockets
  /\ conn[lastOp.socket] = "closed"
  /\ LeftNotice(sent, lastOp.socket)
  /\ \E i \in 1..Len(chat) : chat[i].userId = lastOp.socket
  /\ DOMAIN users # {}

\* the events that are broadcast to the room
RoomBroadcasts ==
  {"new_message", "message_deleted", "draw_data", "clear_canvas",
   "drawing_toggled", "user_joined", "user_left", "user_updated",
   "user_stream_status", "new_admin", "peer_joined", "peer_left"}

\* C19: a connection that stayed behind when the owner terminated is out of
\* the roster until it joins again, and until then no room broadcast of a later
\* step is addressed to it: every room broadcast goes to connections that are
\* in the roster before or after the step that sends it.
C19_NoBroadcastOutsideRoster ==
  [][ \A i \in 1..Len(sent') :
        sent'[i].ev \in RoomBroadcasts
          => sent'[i].to \subseteq DOMAIN users \cup DOMAIN users' ]_vars

\* C20: every join_room sends join_success to the joiner alone, carrying the
\* roster with the joiner's new entry, the chat as it is and drawingEnabled,
\* and sends user_joined with the new entry to a set of connections that
\* contains every other roster connection and not the joiner.
C20_JoinSnapshotAndNotice ==
  [][ TheOp = "join_room"
      => /\ TheSocket \in DOMAIN users'
         /\ UNCHANGED <<chat, drawingEnabled>>
         /\ Len(sent') = 2
         /\ sent'[1] = [ev |-> "join_success", to |-> {TheSocket},
                        data |-> [role |-> users'[TheSocket].role,
                                  users |-> users',
                                  chat |-> chat',
                                  drawingEnabled |-> drawingEnabled',
                                  isAdmin |-> (users'[TheSocket].role = "admin")]]
         /\ sent'[2].ev = "user_joined"
         /\ sent'[2].data = [userId |-> TheSocket, user |-> users'[TheSocket]]
         /\ TheSocket \notin sent'[2].to
         /\ DOMAIN users \ {TheSocket} \subseteq sent'[2].to ]_vars

\* a connection joined a room that already had another user and a chat message
C20_Witness ==
  /\ lastOp.op = "join_room"
  /\ Len(chat) > 0
  /\ DOMAIN users \ {lastOp.socket} # {}
  /\ sent[1].data.chat = chat
  /\ DOMAIN users \ {lastOp.socket} \subseteq sent[2].to

\* ---------------------------------------------------------------- C21..C30
\* C21: clear_canvas, toggle_draw and set_user_draw issued by a connection with
\* the owner role send one event to the whole room, the owner and every roster
\* connection included; toggle_draw sets drawingEnabled to the given value and
\* changes nothing else, set_user_draw for a target in the roster sets only
\* that entry's canDraw and sends the updated entry, clear_canvas changes no
\* room state.
C21_OwnerControlsBroadcastToAll ==
  [][ ( /\ TheOp \in {"clear_canvas", "toggle_draw", "set_user_draw"}
        /\ TheSocket \in DOMAIN users
        /\ users[TheSocket].role = "admin" )
      => /\ UNCHANGED <<admin, chat, conn, room, timers, up>>
         /\ TheOp = "clear_canvas"
              => /\ UNCHANGED <<users, drawingEnabled>>
                 /\ sent' = << [ev |-> "clear_canvas", to |-> room, data |-> NoData] >>
         /\ TheOp = "toggle_draw"
              => /\ users' = users
                 /\ drawingEnabled' = lastOp'.data.enabled
                 /\ sent' = << [ev |-> "drawing_toggled", to |-> room,
                                data |-> [enabled |-> lastOp'.data.enabled]] >>
         /\ (TheOp = "set_user_draw" /\ lastOp'.data.targetUserId \in DOMAIN users)
              => /\ drawingEnabled' = drawingEnabled
                 /\ users' = [users EXCEPT
                                ![lastOp'.data.targetUserId].canDraw = lastOp'.data.canDraw]
                 /\ sent' = << [ev |-> "user_updated", to |-> room,
                                data |-> [userId |-> lastOp'.data.targetUserId,
                                          user |-> users'[lastOp'.data.targetUserId]]] >>
         /\ \A i \in 1..Len(sent') :
              TheSocket \in sent'[i].to /\ DOMAIN users \subseteq sent'[i].to ]_vars

\* the owner withdrew another connection's draw permission and the notice went
\* to the owner and to that connection
C21_Witness ==
  /\ lastOp.op = "set_user_draw"
  /\ lastOp.socket \in DOMAIN users
  /\ users[lastOp.socket].role = "admin"
  /\ lastOp.data.targetUserId \in DOMAIN users \ {lastOp.socket}
  /\ ~users[lastOp.data.targetUserId].canDraw
  /\ Len(sent) = 1
  /\ {lastOp.socket, lastOp.data.targetUserId} \subseteq sent[1].to

\* C22: a roster entry is created with canDraw = TRUE, and the canDraw of a
\* connection that stays in the roster changes only in a set_user_draw that a
\* connection with the owner role issues with that connection as its target.
C22_CanDrawOnlyByOwner ==
  [][ \A x \in DOMAIN users' :
        IF x \in DOMAIN users
        THEN users'[x].canDraw # users[x].canDraw
               => /\ TheOp = "set_user_draw"
                  /\ lastOp'.data.targetUserId = x
                  /\ TheSocket \in DOMAIN users
                  /\ users[TheSocket].role = "admin"
        ELSE users'[x].canDraw ]_vars

\* C24: whenever the connection recorded as the winner of the last owner claim
\* has closed, appState.admin is unset again, so that the owner role can be
\* claimed anew.
C24_RoomReclaimable ==
  admin # NULL => conn[admin] = "open"

\* C25: every roster entry belongs to an open connection, and a connection
\* that has closed stays closed and never has a roster entry again.
C25_RosterOnlyConnected ==
  [][ /\ \A c \in DOMAIN users' : conn'[c] = "open"
      /\ \A c \in Sockets :
           conn[c] = "closed" => (conn'[c] = "closed" /\ c \notin DOMAIN users') ]_vars

\* the forced disconnect of a kick closed a connection that was in the roster
\* while another connection stays in the roster
C25_Witness ==
  /\ lastOp.op = "kick_timer"
  /\ lastOp.data.connected
  /\ lastOp.socket \in kicked
  /\ lastOp.socket \notin DOMAIN users
  /\ DOMAIN users # {}
  /\ \E c \in Sockets \ {lastOp.socket} : conn[c] = "closed"

\* C30: while the server runs, appState.admin is set exactly when the roster has
\* an entry with the owner role, and it is then the id of that entry.
C30_AdminMatchesRoster ==
  up => /\ admin # NULL <=> Owners(users) # {}
        /\ admin # NULL => Owners(users) = {admin}

\* C26: GET /state changes no room state, and its response agrees with the
\* room: userCount is the number of roster entries, chatMessages the length of
\* the chat, drawingEnabled the flag, and hasAdmin is true exactly when some
\* roster entry has the owner role.
C26_StateEndpointAgrees ==
  [][ TheOp = "get_state"
      => /\ UNCHANGED <<admin, users, chat, drawingEnabled, conn, room, timers, up>>
         /\ Len(sent') = 1
         /\ sent'[1].data.userCount = Cardinality(DOMAIN users)
         /\ sent'[1].data.chatMessages = Len(chat)
         /\ sent'[1].data.drawingEnabled = drawingEnabled
         /\ sent'[1].data.hasAdmin = (Owners(users) # {}) ]_vars

\* C27: a set_user_draw by a connection with the owner role whose target is not
\* in the roster leaves the target without an entry and broadcasts the roster
\* change, user_left for the target, as a termination would.
C27_SetUserDrawOnVanishedTarget ==
  [][ ( /\ TheOp = "set_user_draw"
        /\ TheSocket \in DOMAIN users
        /\ users[TheSocket].role = "admin"
        /\ lastOp'.data.targetUserId \notin DOMAIN users )
      => /\ lastOp'.data.targetUserId \notin DOMAIN users'
         /\ LeftNotice(sent', lastOp'.data.targetUserId) ]_vars

\* C28: between two clients at most one side calls the other: no two media
\* calls go in opposite directions between the same two peers.
C28_NeverBothCall ==
  \A x, y \in calls : ~(x.from = y.to /\ x.to = y.from)

\* a register request naming role admin asked for a code other than the
\* configured one, or none
WrongAdminCode == lastOp'.data.role = "admin" /\ lastOp'.data.adminCode # adminCode
\* the response of the last request
Res == sent'[1].data

\* C29 as stated: a registration with role admin and a wrong or missing code is
\* answered with status 403, stores no user and issues no token; with the
\* configured code a stored user has role admin.
C29_AdminRegistration403 ==
  [][ (TheOp = "register" /\ lastOp'.data.role = "admin")
      => IF lastOp'.data.adminCode # adminCode
         THEN /\ Res.status = 403
              /\ authUsers' = authUsers
              /\ "token" \notin DOMAIN Res
         ELSE Res.status = 201
                => /\ Len(authUsers') = Len(authUsers) + 1
                   /\ authUsers'[Len(authUsers')].role = "admin"
                   /\ Res.user.role = "admin" ]_vars

\* the fields of the last request pass the checks that precede the admin code
FieldsValid ==
  /\ lastOp'.data.email # <<>> /\ lastOp'.data.username # <<>> /\ lastOp'.data.password # <<>>
  /\ lastOp'.data.email \in { <<"a", "@", "x", ".", "i", "o">>, <<"b", "@", "x", ".", "i", "o">> }
  /\ Len(lastOp'.data.password) >= 6

\* C29 amended: a registration with role admin and a wrong or missing code is
\* rejected, with status 403 when its email, username and password pass the
\* validation and with status 400 otherwise, stores no user and issues no
\* token; with the configured code a stored user has role admin; a user with
\* role admin is stored only by a request that carries the configured code.
C29_AdminRegistrationNeedsCode ==
  [][ TheOp = "register"
      => /\ lastOp'.data.role = "admin"
            => IF lastOp'.data.adminCode # adminCode
               THEN /\ Res.status = (IF FieldsValid THEN 403 ELSE 400)
                    /\ authUsers' = authUsers
                    /\ "token" \notin DOMAIN Res
               ELSE Res.status = 201
                      => /\ Len(authUsers') = Len(authUsers) + 1
                         /\ authUsers'[Len(authUsers')].role = "admin"
                         /\ Res.user.role = "admin"
         /\ \A i \in 1..Len(authUsers') :
              (i > Len(authUsers) /\ authUsers'[i].role = "admin")
                => (lastOp'.data.role = "admin" /\ lastOp'.data.adminCode = adminCode)
         /\ \A i \in 1..Len(authUsers) : authUsers'[i] = authUsers[i] ]_vars

\* after a student had registered, a registration with role admin and a
\* wrong code was answered 403 and stored nothing
C29_Witness ==
  /\ lastOp.op = "register"
  /\ lastOp.data.role = "admin"
  /\ lastOp.data.adminCode = "wrong"
  /\ sent[1].data.status = 403
  /\ Len(authUsers) = 1
  /\ authUsers[1].role = "student"

\* ---------------------------------------------------------------- C31..C37
\* the operations other than join_room that a socket can issue
NonJoinOps ==
  {"chat_message", "delete_message", "draw_data", "clear_canvas", "toggle_draw",
   "set_user_draw", "kick_user", "peer_ready", "peer_left", "peer_joined",
   "stream_status", "leave_session", "set_admin"}

\* C31: an operation other than join_room issued by a connection that has no
\* roster entry leaves admin, roster, chat and drawingEnabled unchanged, leaves
\* the server running and sends nothing to any other connection.
C31_UnjoinedIsNoOp ==
  [][ (TheOp \in NonJoinOps /\ TheSocket \notin DOMAIN users)
      => /\ UNCHANGED <<admin, users, chat, drawingEnabled, timers, up>>
         /\ \A i \in 1..Len(sent') : sent'[i].to \subseteq {TheSocket} ]_vars

\* C32: set_admin by a roster connection makes the caller the owner (role
\* admin, appState.admin the caller, admin_set{isAdmin: true} to the caller,
\* new_admin with the caller's entry to the others) exactly when the code is
\* the configured one and no roster connection holds the owner role; otherwise
\* nothing of the room changes and the caller alone is sent
\* admin_set{isAdmin: false} with an error.
C32_SetAdminPromotesIffFree ==
  [][ (TheOp = "set_admin" /\ TheSocket \in DOMAIN users)
      => IF lastOp'.data.adminCode = adminCode /\ Owners(users) = {}
         THEN /\ admin' = TheSocket
              /\ users' = [users EXCEPT ![TheSocket].role = "admin"]
              /\ UNCHANGED <<chat, drawingEnabled>>
              /\ sent' = << [ev |-> "admin_set", to |-> {TheSocket},
                             data |-> [isAdmin |-> TRUE]],
                            [ev |-> "new_admin", to |-> room \ {TheSocket},
                             data |-> [userId |-> TheSocket, user |-> users'[TheSocket]]] >>
         ELSE /\ UNCHANGED <<admin, users, chat, drawingEnabled>>
              /\ Len(sent') = 1
              /\ sent'[1].ev = "admin_set"
              /\ sent'[1].to = {TheSocket}
              /\ ~sent'[1].data.isAdmin
              /\ "error" \in DOMAIN sent'[1].data ]_vars

\* the sequence q without its k-th element
Without(q, k) == [i \in 1..(Len(q) - 1) |-> IF i < k THEN q[i] ELSE q[i + 1]]

\* C33: a delete_message(id) by a connection with the owner role removes
\* exactly one message, one that carries the id, and keeps every other message
\* in its order; when no message carries the id the chat is unchanged.
C33_DeleteRemovesExactlyOne ==
  [][ ( /\ TheOp = "delete_message"
        /\ TheSocket \in DOMAIN users
        /\ users[TheSocket].role = "admin" )
      => IF \E k \in 1..Len(chat) : chat[k].id = lastOp'.data.messageId
         THEN \E k \in 1..Len(chat) :
                /\ chat[k].id = lastOp'.data.messageId
                /\ chat' = Without(chat, k)
         ELSE chat' = chat ]_vars

\* C37: a roster entry's inVideoCall is set exactly when it has a registered,
\* non-null handle.
C37_InCallIffHandle ==
  \A c \in DOMAIN users : users[c].inVideoCall <=> users[c].peerId # NULL
\* C34: the forced disconnect of a kick closes a socket only while a connection
\* that issued the kick is still in the roster with the owner role; after the
\* kicker's session was reset nobody is, so a kick pending from the old session
\* closes no socket, whether or not its target has joined again.
C34_KickOnlyWhileKickerIsOwner ==
  [][ (TheOp = "kick_timer" /\ conn[TheSocket] = "open")
      => \E k \in kicker[TheSocket] : k \in DOMAIN users /\ users[k].role = "admin" ]_vars

\* C36: no two stored accounts share an email or a username, and a register
\* request whose email or username is stored when its account would be written
\* writes nothing and is answered 409.
C36_NoDuplicateAccounts ==
  /\ \A i, j \in 1..Len(authUsers) :
       i # j => /\ authUsers[i].email # authUsers[j].email
                /\ authUsers[i].username # authUsers[j].username
  /\ (lastOp.op = "register_create"
        /\ \E i \in 1..(Len(authUsers) - 1) :
             \/ authUsers[i].email = lastOp.data.email
             \/ authUsers[i].username = lastOp.data.username)
     => /\ Len(sent) = 1
        /\ sent[1].data.status = 409

\* C35: when a client has handled the reply to its join_room and the events
\* sent before it, it is in the classroom and its local roster, chat list and
\* drawingEnabled are the server's users, chat and drawingEnabled.
C35_LateJoinerViewAgrees ==
  \A c \in Sockets :
    (lastOp.op = "join_room" /\ lastOp.socket = c /\ c \in DOMAIN users)
      => /\ classroom[c].inClassroom
         /\ classroom[c].users = users
         /\ classroom[c].chatMessages = chat
         /\ classroom[c].drawingEnabled = drawingEnabled
====
